---- MODULE Spec2Model ----
(***************************************************************************)
(* The shared CAD document of jupytercad/notebook/cad_document.py:         *)
(* CadDocument keeps one replicated array "objects" (a Y.YArray of Y.YMap) *)
(* and mutates it only inside ydoc.begin_transaction() scopes.  A name     *)
(* "P n" (f"{obj_type} {n}") is the pair <<P, n>>; a caller-chosen name    *)
(* such as "A" is <<"A", 0>>; the empty string is <<"", 0>>.               *)
(***************************************************************************)
EXTENDS Integers, Sequences, FiniteSets

VARIABLES ydoc, chan, peers, widget, run

vars == <<ydoc, chan, peers, widget, run>>

(* ------------------------------ bounds -------------------------------- *)

\* Items one replica may insert into the array (live or deleted).
MaxItems == 3

\* The same, when two replicas share the document.
MaxShared == 2

ItemCap == IF Cardinality(peers) = 1 THEN MaxItems ELSE MaxShared

\* Updates that may wait in one transport queue.
MaxQueue == 1

Replicas == {1, 2}

(* ------------------------------ names --------------------------------- *)

NoName == <<"", 0>>

\* f"{obj_type} {n}" of _new_name.
Fmt(obj_type, n) == <<obj_type, n>>

\* Names a caller passes explicitly.
GivenNames == {<<"A", 0>>, <<"B", 0>>}

\* A name no operation of the model ever adds.
UnknownName == <<"Z", 0>>

Prefixes == {"Shape", "Box", "Cone", "Cylinder", "Sphere", "Torus", "Cut"}

(* ------------------------------ items --------------------------------- *)

NilId == <<0, 0>>

\* A map entry of the array: the YMap built from the object's dict, inside
\* the array item that carries it (id, origin: the CRDT's bookkeeping).
Item(id, origin, name, shape, params, visible) ==
    [id |-> id, origin |-> origin, deleted |-> FALSE,
     name |-> name, shape |-> shape, params |-> params, visible |-> visible]

\* A deleted item keeps its place and identity and loses its content.
Tombstone(it) ==
    [id |-> it.id, origin |-> it.origin, deleted |-> TRUE,
     name |-> NoName, shape |-> "", params |-> <<>>, visible |-> FALSE]

IsLive(it) == ~it.deleted

\* What iterating self._objects_array yields: the entries not deleted.
Entries(doc) == SelectSeq(doc, IsLive)

\* CadDocument.objects
ObjectsOf(doc) ==
    LET e == Entries(doc) IN [i \in 1..Len(e) |-> e[i].name]

objects(r) == ObjectsOf(ydoc[r])

Range(s) == {s[i] : i \in 1..Len(s)}

(* ----------------------- lookups (pure reads) ------------------------- *)

\* check_exist, had it also asked the other replicas.
check_exist_anywhere(doc, name) ==
    \E r \in Replicas : name \in Range(ObjectsOf(ydoc[r]))

\* CadDocument.check_exist
check_exist(doc, name) ==
    IF Len(ObjectsOf(doc)) > 0 THEN name \in Range(ObjectsOf(doc)) ELSE FALSE

\* CadDocument._get_yobject_index_by_name: the 0-based index of the first
\* entry with that name, -1 when there is none.
RECURSIVE ScanIndex(_, _, _)
ScanIndex(objs, name, index) ==
    IF index >= Len(objs) THEN -1
    ELSE IF objs[index + 1] = name THEN index
    ELSE ScanIndex(objs, name, index + 1)

\* _get_yobject_index_by_name, had it kept the last match.
get_yobject_index_last(doc, name) ==
    LET objs == ObjectsOf(doc)
        hits == {i \in 1..Len(objs) : objs[i] = name}
    IN  IF hits = {} THEN -1 ELSE (CHOOSE i \in hits : \A j \in hits : j <= i) - 1

get_yobject_index_by_name(doc, name) == ScanIndex(ObjectsOf(doc), name, 0)

\* The place in the array (deleted items included) of the entry at index.
RECURSIVE PosOfEntry(_, _, _)
PosOfEntry(doc, index, pos) ==
    IF pos > Len(doc) THEN 0
    ELSE IF IsLive(doc[pos])
         THEN IF index = 0 THEN pos ELSE PosOfEntry(doc, index - 1, pos + 1)
         ELSE PosOfEntry(doc, index, pos + 1)

\* CadDocument._get_yobject_by_name: the place of the first entry with that
\* name, 0 for None.
get_yobject_by_name(doc, name) ==
    LET index == ScanIndex(ObjectsOf(doc), name, 0)
    IN  IF index = -1 THEN 0 ELSE PosOfEntry(doc, index, 1)

\* _new_name, had it probed with "if" where it loops with "while".
NewNameOnce(objs, obj_type, name, n, fuel) ==
    IF name \notin Range(objs) THEN name ELSE Fmt(obj_type, n)

\* CadDocument._new_name: the while loop, with the iterations it may take
\* counted down in fuel; NoName stands for a loop that has not ended.
RECURSIVE NewNameLoop(_, _, _, _, _)
NewNameLoop(objs, obj_type, name, n, fuel) ==
    IF name \notin Range(objs) THEN name
    ELSE IF fuel = 0 THEN NoName
    ELSE NewNameLoop(objs, obj_type, Fmt(obj_type, n), n + 1, fuel - 1)

\* _new_name, had it numbered by the count of objects.
new_name_by_count(doc, obj_type) == Fmt(obj_type, Len(ObjectsOf(doc)) + 1)

new_name(doc, obj_type) ==
    NewNameLoop(ObjectsOf(doc), obj_type, Fmt(obj_type, 1), 1,
                Len(ObjectsOf(doc)) + 1)

\* "name if name else self._new_name(prefix)"
NameOrNew(doc, name, obj_type) ==
    IF name # NoName THEN name ELSE new_name(doc, obj_type)

(* ------------------------- operand resolution ------------------------- *)

\* An operand argument: omitted (None), a name (str) or an index (int).
Omitted == [t |-> "none", s |-> NoName, i |-> 0]
ByName(name) == [t |-> "str", s |-> name, i |-> 0]
ByIndex(k) == [t |-> "int", s |-> NoName, i |-> k]

\* Python's list indexing objects[i]: negative indices count from the end,
\* anything else out of range raises IndexError.
InRange(objs, i) == -Len(objs) <= i /\ i < Len(objs)
PyIndex(objs, i) == IF i >= 0 THEN objs[i + 1] ELSE objs[Len(objs) + i + 1]

\* An operand, had a name not been looked up in objects.
ResolveOperandUnchecked(objs, shape, dflt) ==
    IF shape.t = "str" THEN [status |-> "ok", name |-> shape.s]
    ELSE IF shape.t = "int"
    THEN IF InRange(objs, shape.i)
         THEN [status |-> "ok", name |-> PyIndex(objs, shape.i)]
         ELSE [status |-> "IndexError", name |-> NoName]
    ELSE [status |-> "ok", name |-> PyIndex(objs, dflt)]

\* One operand of _get_boolean_operands; dflt is -2 for the first operand
\* and -1 for the second.
ResolveOperand(objs, shape, dflt) ==
    IF shape.t = "str"
    THEN IF shape.s \notin Range(objs)
         THEN [status |-> "ValueError_unknown", name |-> NoName]
         ELSE [status |-> "ok", name |-> shape.s]
    ELSE IF shape.t = "int"
    THEN IF InRange(objs, shape.i)
         THEN [status |-> "ok", name |-> PyIndex(objs, shape.i)]
         ELSE [status |-> "IndexError", name |-> NoName]
    ELSE [status |-> "ok", name |-> PyIndex(objs, dflt)]

\* CadDocument._get_boolean_operands
get_boolean_operands(doc, shape1, shape2) ==
    LET objs == ObjectsOf(doc)
    IN  IF Len(objs) < 2
        THEN [status |-> "ValueError_insufficient", shape1 |-> NoName, shape2 |-> NoName]
        ELSE LET r1 == ResolveOperand(objs, shape1, -2)
             IN  IF r1.status # "ok"
                 THEN [status |-> r1.status, shape1 |-> NoName, shape2 |-> NoName]
                 ELSE LET r2 == ResolveOperand(objs, shape2, -1)
                      IN  IF r2.status # "ok"
                          THEN [status |-> r2.status, shape1 |-> NoName, shape2 |-> NoName]
                          ELSE [status |-> "ok", shape1 |-> r1.name, shape2 |-> r2.name]


(* --------------------------- object factory --------------------------- *)

\* The shape tags registered with OBJECT_FACTORY ("Part::Any" is not).
Factories ==
    {"Part::Box", "Part::Cone", "Part::Cut", "Part::Cylinder", "Part::Extrusion",
     "Part::MultiCommon", "Part::MultiFuse", "Part::Sphere", "Part::Torus"}

\* The operand names an object's parameters refer to (Base and Tool of a
\* cut, Shapes of a fuse or an intersection), <<>> for a primitive.
Data(name, shape, params) == [name |-> name, shape |-> shape, params |-> params]

NoObject == Data(NoName, "", <<>>)

\* ObjectFactoryManager.create_object: None for an unregistered shape tag.
create_object(data) ==
    IF data.shape # "" /\ data.shape \in Factories THEN data ELSE NoObject

(* ---------------------------- transactions ---------------------------- *)

\* The next clock of replica r: one more than the items it has inserted.
NextClock(doc, r) == 1 + Cardinality({i \in 1..Len(doc) : doc[i].id[1] = r})

LastId(doc) == IF Len(doc) = 0 THEN NilId ELSE doc[Len(doc)].id

Update(kind, it) == [kind |-> kind, it |-> it]

\* A handler's local state: the array, the updates its transactions have
\* emitted so far, and how the call ends.
Local(doc, out, oc) == [doc |-> doc, out |-> out, oc |-> oc]

\* The append, had an empty map been appended and filled in afterwards.
TxnAppendEmptyMap(st, r, data, visible) ==
    LET it == Item(<<r, NextClock(st.doc, r)>>, LastId(st.doc), data.name, "", <<>>, visible)
    IN  Local(Append(st.doc, it), Append(st.out, Update("ins", it)), st.oc)

\* with self.ydoc.begin_transaction() as t: self._objects_array.append(t, Y.YMap(d))
TxnAppend(st, r, data, visible) ==
    LET it == Item(<<r, NextClock(st.doc, r)>>, LastId(st.doc),
                   data.name, data.shape, data.params, visible)
    IN  Local(Append(st.doc, it), Append(st.out, Update("ins", it)), st.oc)

\* with self.ydoc.begin_transaction() as t: self._objects_array.delete(t, index)
TxnDelete(st, index) ==
    LET pos == PosOfEntry(st.doc, index, 1)
    IN  Local([st.doc EXCEPT ![pos] = Tombstone(@)],
              Append(st.out, Update("del", Tombstone(st.doc[pos]))), st.oc)

\* with self.ydoc.begin_transaction() as t: obj.set(t, "visible", False)
TxnSetVisible(st, pos, value) ==
    Local([st.doc EXCEPT ![pos].visible = value],
          Append(st.out, Update("set", Tombstone(st.doc[pos]))), st.oc)

(* ------------------------------ handlers ------------------------------ *)

Raise(st, oc) == Local(st.doc, st.out, oc)

\* add_object, had it appended without asking check_exist.
add_object_unchecked(st, r, new_object) == TxnAppend(st, r, new_object, TRUE)

\* CadDocument.add_object
add_object_h(st, r, new_object) ==
    IF ~check_exist(st.doc, new_object.name)
    THEN TxnAppend(st, r, new_object, TRUE)
    ELSE Raise(st, "exists_logged")

\* CadDocument.remove
remove_h(st, name) ==
    LET index == get_yobject_index_by_name(st.doc, name)
    IN  IF Len(Entries(st.doc)) > 0 /\ index # -1 THEN TxnDelete(st, index) ELSE st

\* set_visible, had it written the caller's value.
set_visible_as_asked(st, name, value) ==
    LET obj == get_yobject_by_name(st.doc, name)
    IN  IF obj = 0 THEN Raise(st, "RuntimeError_no_object")
        ELSE TxnSetVisible(st, obj, value)

\* CadDocument.set_visible
set_visible_h(st, name, value) ==
    LET obj == get_yobject_by_name(st.doc, name)
    IN  IF obj = 0 THEN Raise(st, "RuntimeError_no_object")
        ELSE TxnSetVisible(st, obj, FALSE)

\* CadDocument.add_occ_shape; occ: whether OCC.Core.BRepTools can be imported.
add_occ_shape_h(st, r, name, occ) ==
    IF ~occ THEN Raise(st, "RuntimeError_occ")
    ELSE TxnAppend(st, r, Data(NameOrNew(st.doc, name, "Shape"), "Part::Any", <<>>), TRUE)

\* add_box, add_cone, add_cylinder, add_sphere, add_torus: the same body with
\* its own shape tag and prefix.
add_primitive_h(st, r, name, shape, prefix) ==
    add_object_h(st, r, create_object(Data(NameOrNew(st.doc, name, prefix), shape, <<>>)))

\* cut, fuse, intersect, had they hidden the first operand only.
boolean_hides_one(st, r, name, shape1, shape2, shape) ==
    LET ops == get_boolean_operands(st.doc, shape1, shape2)
    IN  IF ops.status # "ok" THEN Raise(st, ops.status)
        ELSE LET data == Data(NameOrNew(st.doc, name, "Cut"), shape,
                              <<ops.shape1, ops.shape2>>)
                 st1 == set_visible_h(st, ops.shape1, FALSE)
             IN  IF st1.oc # "ok" THEN st1
                 ELSE add_object_h(st1, r, create_object(data))

\* cut, fuse, intersect: the same body with its own shape tag; all three
\* take the prefix "Cut".
boolean_h(st, r, name, shape1, shape2, shape) ==
    LET ops == get_boolean_operands(st.doc, shape1, shape2)
    IN  IF ops.status # "ok" THEN Raise(st, ops.status)
        ELSE LET data == Data(NameOrNew(st.doc, name, "Cut"), shape,
                              <<ops.shape1, ops.shape2>>)
                 st1 == set_visible_h(st, ops.shape1, FALSE)
                 st2 == set_visible_h(st1, ops.shape2, FALSE)
             IN  IF st1.oc # "ok" THEN st1
                 ELSE IF st2.oc # "ok" THEN st2
                 ELSE add_object_h(st2, r, create_object(data))

\* CadDocument.get_object: None (NoObject) when the name is absent or the
\* entry's shape tag has no factory.
get_object(doc, name) ==
    IF check_exist(doc, name)
    THEN LET e == doc[get_yobject_by_name(doc, name)]
         IN  create_object(Data(e.name, e.shape, e.params))
    ELSE NoObject


(* ---------------------- construction of an object ---------------------- *)

\* The replica id under which a document of its own inserts.
Own == 0

Built(object, parent, caddoc) == [object |-> object, parent |-> parent, caddoc |-> caddoc]

\* PythonJcadObject.__init__, had it registered the object with its parent.
PythonJcadObject_in_parent(parent, data) ==
    LET doc == add_object_h(Local(parent, <<>>, "ok"), 1, data).doc
    IN  Built(data, doc, doc)

\* PythonJcadObject.__init__: the parent document as it is afterwards, and
\* the object's own _caddoc = CadDocument() after _caddoc.add_object(self).
PythonJcadObject(parent, data) ==
    Built(data, parent, add_object_h(Local(<<>>, <<>>, "ok"), Own, data).doc)

\* ObjectFactoryManager.create_object(data, parent), with the documents it
\* leaves behind; no document is made for an unregistered shape tag.
create_object_in(data, parent) ==
    IF data.shape # "" /\ data.shape \in Factories
    THEN PythonJcadObject(parent, data)
    ELSE Built(NoObject, parent, <<>>)

(* ------------------- the replicated array's merge rule ----------------- *)

RECURSIVE IdxOf(_, _, _)
IdxOf(doc, id, pos) ==
    IF pos > Len(doc) THEN 0
    ELSE IF doc[pos].id = id THEN pos
    ELSE IdxOf(doc, id, pos + 1)

InsertAt(doc, pos, it) ==
    SubSeq(doc, 1, pos - 1) \o <<it>> \o SubSeq(doc, pos, Len(doc))

\* Where a remote item goes: right of its origin, past the concurrent items
\* that win over it (same origin and a smaller replica id, or items that
\* hang off such an item).  Every item of this program is an append, so its
\* right origin is empty.
RECURSIVE ScanConflicts(_, _, _, _, _, _)
ScanConflicts(doc, it, o, left, conflicting, before) ==
    IF o > Len(doc) THEN left
    ELSE LET c == doc[o]
         IN  IF c.origin = it.origin
             THEN IF c.id[1] < it.id[1]
                  THEN ScanConflicts(doc, it, o + 1, o, {}, before \cup {c.id})
                  ELSE left
             ELSE IF c.origin # NilId /\ c.origin \in before
             THEN IF c.origin \notin conflicting
                  THEN ScanConflicts(doc, it, o + 1, o, {}, before \cup {c.id})
                  ELSE ScanConflicts(doc, it, o + 1, left,
                                     conflicting \cup {c.id}, before \cup {c.id})
             ELSE left

\* The merge, had a remote item always gone to the end.
IntegrateAtEnd(doc, it) == Append(doc, it)

Integrate(doc, it) ==
    LET start == IF it.origin = NilId THEN 1 ELSE IdxOf(doc, it.origin, 1) + 1
    IN  InsertAt(doc, ScanConflicts(doc, it, start, start - 1, {}, {}) + 1, it)

\* Applying one remote update to a replica's array.
ApplyUpdate(doc, u) ==
    LET pos == IdxOf(doc, u.it.id, 1)
    IN  IF u.kind = "ins" THEN Integrate(doc, u.it)
        ELSE IF pos = 0 \/ doc[pos].deleted THEN doc
        ELSE IF u.kind = "del" THEN [doc EXCEPT ![pos] = Tombstone(@)]
        ELSE [doc EXCEPT ![pos].visible = FALSE]

(* ------------------------- opening a document -------------------------- *)

\* Longest file name, counted in pieces (a word or a dot).
MaxNameLen == 5

Dot == "."

\* The pieces a file name is written with, besides the dot.
Words == {"model", "xyz", "jcad", "JCAD", "FCStd"}

FileNames == UNION {[1..n -> Words \cup {Dot}] : n \in 0..MaxNameLen}

\* CadDocument(path): a path is omitted (None) or names a file; of
\* normalize_path(filePath) only Path(path).name matters below.
NoPath == [given |-> FALSE, name |-> <<>>]
FilePath(name) == [given |-> TRUE, name |-> name]

\* str.lower() of one piece, and of a run of pieces.
lower(w) == CASE w = "JCAD" -> "jcad" [] w = "FCStd" -> "fcstd" [] OTHER -> w

Lower(seg) == [i \in 1..Len(seg) |-> lower(seg[i])]

\* file_name.split("."): acc holds the segments already closed, cur the
\* one being read.
RECURSIVE split(_, _, _)
split(name, acc, cur) ==
    IF name = <<>> THEN Append(acc, cur)
    ELSE IF Head(name) = Dot THEN split(Tail(name), Append(acc, cur), <<>>)
    ELSE split(Tail(name), acc, Append(cur, Head(name)))

CommData(error, path, format, contentType) ==
    [error |-> error, path |-> path, format |-> format, contentType |-> contentType]

NoComm == CommData("", NoPath, "None", "None")

\* CadDocument.path_to_comm; fc: whether the FreeCAD loader found FreeCAD.
path_to_comm(filePath, fc) ==
    IF ~filePath.given THEN CommData("", NoPath, "None", "None")
    ELSE LET segs == split(filePath.name, <<>>, <<>>)
         IN  IF Len(segs) < 2 THEN CommData("ValueError_detect", NoPath, "None", "None")
             ELSE LET ext == Lower(segs[2])
                  IN  IF ext = <<"fcstd">>
                      THEN IF ~fc
                           THEN CommData("RuntimeError_FreeCAD", NoPath, "None", "None")
                           ELSE CommData("", filePath, "base64", "FCStd")
                      ELSE IF ext = <<"jcad">>
                      THEN CommData("", filePath, "text", "jcad")
                      ELSE CommData("ValueError_unsupported", NoPath, "None", "None")

\* A CadDocument under construction: the arguments of the call, where
\* __init__ stands (pc), the payload, whether the comm is open and whether
\* the "objects" array has been obtained.
Widget(path, fc, pc, comm_data, comm, array) ==
    [path |-> path, fc |-> fc, pc |-> pc, comm_data |-> comm_data,
     comm |-> comm, array |-> array]

\* CadDocument(): what the operations below are called on.
Attached == Widget(NoPath, FALSE, "ready", NoComm, TRUE, TRUE)

\* CadDocument.__init__, one statement at a time: path_to_comm, then
\* super().__init__(open_comm=True, comm_data=comm_data), then get_array.
init(w) ==
    IF w.pc = "new"
    THEN LET comm_data == path_to_comm(w.path, w.fc)
         IN  IF comm_data.error # ""
             THEN Widget(w.path, w.fc, "raised", comm_data, w.comm, w.array)
             ELSE Widget(w.path, w.fc, "super_init", comm_data, w.comm, w.array)
    ELSE IF w.pc = "super_init"
    THEN Widget(w.path, w.fc, "get_array", w.comm_data, TRUE, w.array)
    ELSE Widget(w.path, w.fc, "ready", w.comm_data, w.comm, TRUE)

(* ------------------------------ the calls ------------------------------ *)

Begin(r) == Local(ydoc[r], <<>>, "ok")

\* A call on replica r ends in local state st: its transactions are
\* committed in order, and each update goes to every other peer.
Commit(r, st) ==
    /\ NextClock(st.doc, r) <= ItemCap + 1
    /\ \A q \in peers \ {r} : Len(chan[q]) + Len(st.out) <= MaxQueue
    /\ ydoc' = [ydoc EXCEPT ![r] = st.doc]
    /\ chan' = [q \in Replicas |->
                   IF q \in peers \ {r} THEN chan[q] \o st.out ELSE chan[q]]
    /\ UNCHANGED <<peers, widget, run>>

\* Objects a caller builds itself and hands to add_object.
GivenObjects == {Data(n, "Part::Extrusion", <<>>) : n \in GivenNames}

\* Operand arguments the callers of the model pass to cut, and the fewer
\* ones they pass to fuse and intersect.
OperandArgs ==
    {Omitted} \cup {ByName(n) : n \in GivenNames \cup {UnknownName}}
              \cup {ByIndex(k) : k \in {0, 2}}

FewArgs == {Omitted, ByName(<<"A", 0>>), ByIndex(2)}

add_object(r) == \E new_object \in GivenObjects :
    Commit(r, add_object_h(Begin(r), r, new_object))

remove(r) == \E name \in GivenNames \cup {Fmt(p, 1) : p \in Prefixes} :
    Commit(r, remove_h(Begin(r), name))

set_visible(r) == \E name \in GivenNames \cup {Fmt("Box", 1)}, value \in BOOLEAN :
    Commit(r, set_visible_h(Begin(r), name, value))

add_occ_shape(r) == \E name \in {<<"A", 0>>, NoName}, occ \in BOOLEAN :
    Commit(r, add_occ_shape_h(Begin(r), r, name, occ))

add_box(r) == \E name \in {NoName} :
    Commit(r, add_primitive_h(Begin(r), r, name, "Part::Box", "Box"))

add_cone(r) == \E name \in {<<"A", 0>>} :
    Commit(r, add_primitive_h(Begin(r), r, name, "Part::Cone", "Cone"))

add_cylinder(r) == \E name \in {<<"B", 0>>} :
    Commit(r, add_primitive_h(Begin(r), r, name, "Part::Cylinder", "Cylinder"))

add_sphere(r) == \E name \in {<<"A", 0>>} :
    Commit(r, add_primitive_h(Begin(r), r, name, "Part::Sphere", "Sphere"))

add_torus(r) == \E name \in {<<"B", 0>>} :
    Commit(r, add_primitive_h(Begin(r), r, name, "Part::Torus", "Torus"))

cut(r) == \E name \in {<<"A", 0>>, NoName}, base \in OperandArgs, tool \in OperandArgs :
    Commit(r, boolean_h(Begin(r), r, name, base, tool, "Part::Cut"))

fuse(r) == \E name \in {NoName}, shape1 \in FewArgs, shape2 \in FewArgs :
    Commit(r, boolean_h(Begin(r), r, name, shape1, shape2, "Part::MultiFuse"))

intersect(r) == \E name \in {NoName}, shape1 \in FewArgs, shape2 \in FewArgs :
    Commit(r, boolean_h(Begin(r), r, name, shape1, shape2, "Part::MultiCommon"))

\* The transport hands replica r the next update sent to it.
Deliver(r) ==
    /\ Len(chan[r]) > 0
    /\ ydoc' = [ydoc EXCEPT ![r] = ApplyUpdate(@, Head(chan[r]))]
    /\ chan' = [chan EXCEPT ![r] = Tail(@)]
    /\ UNCHANGED <<peers, widget, run>>

(* ------------------- a call, one statement at a time ------------------- *)

\* Updates that may wait in one transport queue while calls are followed
\* statement by statement (a boolean operation emits three).
MaxBacklog == 3

Stmt(op, u) == [op |-> op, u |-> u]

NoUpdate == Update("", Tombstone(Item(NilId, NilId, NoName, "", <<>>, FALSE)))

\* "with self.ydoc.begin_transaction() as t: <one change>": the scope is
\* entered, the change is made, the scope is left (which commits), and
\* control goes on to the next statement.
TxnStmts(u) ==
    <<Stmt("begin", NoUpdate), Stmt("change", u), Stmt("commit", u), Stmt("next", NoUpdate)>>

\* The scopes of a call, had each been entered inside the one before.
RECURSIVE ProgramNested(_)
ProgramNested(out) ==
    IF out = <<>> THEN <<>>
    ELSE <<Stmt("begin", NoUpdate)>> \o ProgramNested(Tail(out))
         \o <<Stmt("change", Head(out)), Stmt("commit", Head(out)), Stmt("next", NoUpdate)>>

\* The transaction scopes of a call in the order the call runs them: one
\* after the other, none inside another.
RECURSIVE Program(_)
Program(out) ==
    IF out = <<>> THEN <<>> ELSE TxnStmts(Head(out)) \o Program(Tail(out))

\* Where a replica's process stands: the call it is in ("" for none), the
\* statements still to run, the transaction state, the scopes entered and
\* not yet left, and the kinds of the transactions the call has committed.
Running(call, prog, txn, open, log) ==
    [call |-> call, prog |-> prog, txn |-> txn, open |-> open, log |-> log]

NotRunning == Running("", <<>>, "Idle", 0, <<>>)

\* The change a transaction makes to the replica's own array.
ApplyLocal(doc, u) ==
    LET pos == IdxOf(doc, u.it.id, 1)
    IN  IF u.kind = "ins" THEN Append(doc, u.it)
        ELSE IF u.kind = "del" THEN [doc EXCEPT ![pos] = Tombstone(@)]
        ELSE [doc EXCEPT ![pos].visible = FALSE]

\* Replica r enters a call that, from the document as it is now, runs the
\* transactions st.out.
Enter(r, call, st) ==
    /\ widget.pc = "ready"
    /\ run[r] = NotRunning
    /\ NextClock(st.doc, r) <= MaxItems + 1
    /\ \A q \in peers \ {r} : Len(chan[q]) + Len(st.out) <= MaxBacklog
    /\ run' = [run EXCEPT ![r] =
                  Running(call, Program(st.out) \o <<Stmt("return", NoUpdate)>>, "Idle", 0, <<>>)]
    /\ UNCHANGED <<ydoc, chan, peers, widget>>

enter_add_object(r) == \E new_object \in GivenObjects :
    Enter(r, "add_object", add_object_h(Begin(r), r, new_object))

enter_remove(r) == \E name \in {<<"A", 0>>} :
    Enter(r, "remove", remove_h(Begin(r), name))

enter_set_visible(r) == \E name \in {<<"B", 0>>}, value \in BOOLEAN :
    Enter(r, "set_visible", set_visible_h(Begin(r), name, value))

enter_cut(r) == \E name \in {<<"A", 0>>, NoName}, base \in FewArgs, tool \in FewArgs :
    Enter(r, "cut", boolean_h(Begin(r), r, name, base, tool, "Part::Cut"))

\* The next statement of the call replica r is in.
Step(r) ==
    /\ run[r].prog # <<>>
    /\ LET s == Head(run[r].prog)
           rest == Tail(run[r].prog)
           now == run[r]
       IN  /\ run' = [run EXCEPT ![r] =
                  CASE s.op = "begin" ->
                         Running(now.call, rest, "Open", now.open + 1, now.log)
                    [] s.op = "change" ->
                         Running(now.call, rest, now.txn, now.open, now.log)
                    [] s.op = "commit" ->
                         Running(now.call, rest, "Committed", now.open - 1,
                                 Append(now.log, s.u.kind))
                    [] s.op = "next" ->
                         Running(now.call, rest, "Idle", now.open, now.log)
                    [] OTHER -> NotRunning]
           /\ ydoc' = IF s.op = "change"
                      THEN [ydoc EXCEPT ![r] = ApplyLocal(@, s.u)]
                      ELSE ydoc
           /\ chan' = IF s.op = "commit"
                      THEN [q \in Replicas |->
                              IF q \in peers \ {r} THEN Append(chan[q], s.u) ELSE chan[q]]
                      ELSE chan
    /\ UNCHANGED <<peers, widget>>

\* The process of replica r takes a remote update between two of its calls:
\* no call suspends, so none is taken inside one.
Receive(r) ==
    /\ run[r] = NotRunning
    /\ Deliver(r)

\* One statement of CadDocument.__init__; the document joins its peers when
\* the comm opens.
CadDocument_init ==
    /\ widget.pc \in {"new", "super_init", "get_array"}
    /\ widget' = init(widget)
    /\ peers' = IF widget'.comm THEN {1} ELSE {}
    /\ UNCHANGED <<ydoc, chan, run>>

(* --------------------------- specifications --------------------------- *)

\* One replica, nothing remote: an empty attached document.
Init ==
    /\ ydoc = [r \in Replicas |-> <<>>]
    /\ chan = [r \in Replicas |-> <<>>]
    /\ peers = {1}
    /\ widget = Attached
    /\ run = [r \in Replicas |-> NotRunning]

Next == \E r \in peers :
    \/ add_object(r)
    \/ remove(r)
    \/ set_visible(r)
    \/ add_occ_shape(r)
    \/ add_box(r)
    \/ add_cone(r)
    \/ add_cylinder(r)
    \/ add_sphere(r)
    \/ add_torus(r)
    \/ cut(r)
    \/ fuse(r)
    \/ intersect(r)

Spec == Init /\ [][Next]_vars

\* Two replicas of the same document, joined by the transport.
InitRepl ==
    /\ ydoc = [r \in Replicas |-> <<>>]
    /\ chan = [r \in Replicas |-> <<>>]
    /\ peers = Replicas
    /\ widget = Attached
    /\ run = [r \in Replicas |-> NotRunning]

NextRepl == \E r \in peers :
    \/ add_object(r)
    \/ remove(r)
    \/ set_visible(r)
    \/ Deliver(r)

SpecRepl == InitRepl /\ [][NextRepl]_vars

\* Opening a document: any file name, with or without FreeCAD; once the
\* document is there, objects are added to it.
InitOpen ==
    /\ ydoc = [r \in Replicas |-> <<>>]
    /\ chan = [r \in Replicas |-> <<>>]
    /\ peers = {}
    /\ \E path \in {NoPath} \cup {FilePath(name) : name \in FileNames}, fc \in BOOLEAN :
           widget = Widget(path, fc, "new", NoComm, FALSE, FALSE)
    /\ run = [r \in Replicas |-> NotRunning]

NextOpen ==
    \/ CadDocument_init
    \/ (widget.pc = "ready" /\ add_box(1))

SpecOpen == InitOpen /\ [][NextOpen]_vars

\* Two replicas whose calls are followed statement by statement: the
\* document's host (1), which builds it, and a peer (2) that removes objects.
NextTxn ==
    \/ enter_add_object(1)
    \/ enter_set_visible(1)
    \/ enter_cut(1)
    \/ enter_remove(2)
    \/ \E r \in peers : Step(r)
    \/ \E r \in peers : Receive(r)

SpecTxn == InitRepl /\ [][NextTxn]_vars


(* ------------------- what the properties quantify over ----------------- *)

BooleanShapes == {"Part::Cut", "Part::MultiFuse", "Part::MultiCommon"}

AllNames ==
    GivenNames \cup {UnknownName, Fmt("Box", 1), Fmt("Shape", 1), Fmt("Cut", 1)}

AllOperandArgs ==
    {Omitted} \cup {ByName(n) : n \in AllNames}
              \cup {ByIndex(k) : k \in (0 - MaxItems - 1)..(MaxItems + 1)}

Count(objs, name) == Cardinality({i \in 1..Len(objs) : objs[i] = name})

\* The least place of name in objs; Len(objs) + 1 when it has none.
First(objs, name) ==
    IF name \in Range(objs)
    THEN CHOOSE i \in 1..Len(objs) : objs[i] = name /\ \A j \in 1..(i - 1) : objs[j] # name
    ELSE Len(objs) + 1

\* What a reader sees of an entry.
Fields(e) == <<e.name, e.shape, e.params, e.visible>>

View(doc) == [i \in 1..Len(Entries(doc)) |-> Fields(Entries(doc)[i])]

Raised(oc) == oc \notin {"ok", "exists_logged"}

(* C1: on a single replica with no remote updates, after any sequence of   *)
(* the public mutating operations the list returned by objects contains no *)
(* name twice.                                                             *)
C1_NoNameTwice ==
    \A i, j \in 1..Len(objects(1)) : objects(1)[i] = objects(1)[j] => i = j

C3_FailedCallLeavesDocument ==
    /\ \A shape \in BooleanShapes : \A name \in AllNames \cup {NoName} :
         \A a, b \in AllOperandArgs :
            LET h == boolean_h(Begin(1), 1, name, a, b, shape)
            IN  h.oc # "ok" => View(h.doc) = View(ydoc[1])
    /\ \A name \in AllNames : \A value \in BOOLEAN :
            LET h == set_visible_h(Begin(1), name, value)
            IN  h.oc # "ok" => View(h.doc) = View(ydoc[1])

(* C4: with distinct objects A and B in the document and no "Cut 1",       *)
(* cut(base=A, tool=B) without a result name appends "Cut 1" at the end,   *)
(* the new entry refers to A and B, A and B are hidden and every other     *)
(* entry keeps its visible flag; the same for fuse and intersect.          *)
C4_BooleanAppendsAndHides ==
    \A shape \in BooleanShapes : \A A, B \in Range(objects(1)) :
        (A # B /\ Fmt("Cut", 1) \notin Range(objects(1))) =>
            LET h == boolean_h(Begin(1), 1, NoName, ByName(A), ByName(B), shape)
                old == View(ydoc[1])
                new == View(h.doc)
                n == Len(old)
            IN  /\ h.oc = "ok"
                /\ ObjectsOf(h.doc) = Append(objects(1), Fmt("Cut", 1))
                /\ new[n + 1][2] = shape
                /\ new[n + 1][3] = <<A, B>>
                /\ new[First(objects(1), A)][4] = FALSE
                /\ new[First(objects(1), B)][4] = FALSE
                /\ \A i \in 1..n :
                      /\ new[i][1] = old[i][1] /\ new[i][2] = old[i][2] /\ new[i][3] = old[i][3]
                      /\ i \notin {First(objects(1), A), First(objects(1), B)}
                            => new[i][4] = old[i][4]

\* A document whose last entry is "Cut 1", made from two distinct entries
\* that are now hidden.
C4_Witness ==
    LET v == View(ydoc[1])
        n == Len(v)
    IN  /\ n >= 3
        /\ v[n][1] = Fmt("Cut", 1)
        /\ v[n][2] \in BooleanShapes
        /\ Len(v[n][3]) = 2
        /\ v[n][3][1] # v[n][3][2]
        /\ \A k \in 1..2 : \E i \in 1..(n - 1) : v[i][1] = v[n][3][k] /\ ~v[i][4]


(* C5: _get_boolean_operands fails with the insufficient-operands error    *)
(* whenever the document has fewer than two objects; otherwise a name in   *)
(* objects resolves to itself, a name not in objects fails with the        *)
(* unknown-object error, an index i resolves to objects[i] (Python         *)
(* indexing), an omitted first operand is the second-to-last object and an *)
(* omitted second operand the last one; every operand returned is in       *)
(* objects, and a call that fails here leaves the document as it was.      *)
C5_Resolves(objs, a) ==
    /\ a.t = "str" => a.s \in Range(objs)
    /\ a.t = "int" => (0 - Len(objs) <= a.i /\ a.i < Len(objs))

C5_Failure(a) == IF a.t = "str" THEN "ValueError_unknown" ELSE "IndexError"

C5_Wanted(objs, a, fromEnd) ==
    IF a.t = "str" THEN a.s
    ELSE IF a.t = "none" THEN objs[Len(objs) - fromEnd]
    ELSE IF a.i >= 0 THEN objs[a.i + 1]
    ELSE objs[Len(objs) + a.i + 1]

C5_OperandResolution ==
    \A a, b \in AllOperandArgs :
        LET objs == objects(1)
            res == get_boolean_operands(ydoc[1], a, b)
            h == boolean_h(Begin(1), 1, NoName, a, b, "Part::Cut")
        IN  /\ Len(objs) < 2 => res.status = "ValueError_insufficient"
            /\ Len(objs) >= 2 =>
                 /\ ~C5_Resolves(objs, a) => res.status = C5_Failure(a)
                 /\ (C5_Resolves(objs, a) /\ ~C5_Resolves(objs, b))
                       => res.status = C5_Failure(b)
                 /\ (C5_Resolves(objs, a) /\ C5_Resolves(objs, b)) =>
                       /\ res.status = "ok"
                       /\ res.shape1 = C5_Wanted(objs, a, 1)
                       /\ res.shape2 = C5_Wanted(objs, b, 0)
            /\ res.status = "ok" => {res.shape1, res.shape2} \subseteq Range(objs)
            /\ res.status # "ok" =>
                 (h.doc = ydoc[1] /\ h.out = <<>> /\ h.oc = res.status)

\* A boolean object whose operands were not passed by name: they are the
\* two entries before it, the first of them no name a caller passes.
C5_Witness ==
    LET v == View(ydoc[1])
    IN  \E i \in 3..Len(v) :
            /\ v[i][2] \in BooleanShapes
            /\ v[i][3] = <<v[i - 2][1], v[i - 1][1]>>
            /\ v[i - 2][1] \notin GivenNames

(* C6, as claimed: remove(name) of a name not in objects changes nothing   *)
(* and raises nothing; of a name in objects it shortens objects by one,    *)
(* keeps the other entries in order and unchanged, and afterwards          *)
(* get_object(name) is null and name is not in objects.                    *)
C6_Removes(r, name, h) ==
    LET old == View(ydoc[r])
        new == View(h.doc)
        k == First(objects(r), name)
    IN  /\ h.oc = "ok"
        /\ name \notin Range(objects(r)) => (new = old /\ h.out = <<>>)
        /\ name \in Range(objects(r)) =>
              /\ Len(new) = Len(old) - 1
              /\ new = SubSeq(old, 1, k - 1) \o SubSeq(old, k + 1, Len(old))

C6_RemovedNameIsGone ==
    \A r \in peers : \A name \in AllNames :
        LET h == remove_h(Begin(r), name)
        IN  /\ C6_Removes(r, name, h)
            /\ name \in Range(objects(r)) =>
                  /\ get_object(h.doc, name) = NoObject
                  /\ name \notin Range(ObjectsOf(h.doc))

(* C6, amended: remove(name) of a name not in objects changes nothing and  *)
(* raises nothing; of a name in objects it deletes the first entry of that *)
(* name and nothing else, so the name occurs once less; when it occurred   *)
(* exactly once, get_object(name) is null and name is not in objects       *)
(* afterwards.                                                             *)
C6_RemovesFirstOccurrence ==
    \A r \in peers : \A name \in AllNames :
        LET h == remove_h(Begin(r), name)
        IN  /\ C6_Removes(r, name, h)
            /\ name \in Range(objects(r)) =>
                  /\ Count(ObjectsOf(h.doc), name) = Count(objects(r), name) - 1
                  /\ Count(objects(r), name) = 1 =>
                        /\ get_object(h.doc, name) = NoObject
                        /\ name \notin Range(ObjectsOf(h.doc))

\* After a removal a replica still lists the removed entry's neighbours:
\* a deleted item lies between or beside entries that are still there.
C6_Witness ==
    \E r \in peers :
        /\ \E i \in 1..Len(ydoc[r]) : ydoc[r][i].deleted /\ ydoc[r][i].id[1] = r
        /\ Len(objects(r)) >= 2
        /\ \E name \in GivenNames : Count(objects(r), name) = 2

(* C7: _new_name ends for every prefix and every document, returns a name  *)
(* that is not in objects, and returns "P 1" whenever "P 1" is not in      *)
(* objects (so on the empty document).                                     *)
C7_NewNameIsFree ==
    \A p \in Prefixes :
        LET name == new_name(ydoc[1], p)
        IN  /\ name # NoName
            /\ name \notin Range(objects(1))
            /\ \E n \in 1..(Len(objects(1)) + 1) : name = Fmt(p, n)
            /\ Fmt(p, 1) \notin Range(objects(1)) => name = Fmt(p, 1)

\* "Box 1" was taken, and the builder went on to "Box 2".
C7_Witness ==
    /\ Fmt("Box", 1) \in Range(objects(1))
    /\ Fmt("Box", 2) \in Range(objects(1))
    /\ new_name(ydoc[1], "Box") = Fmt("Box", 3)

(* C8: set_visible(name, value) of an existing name ends with that entry's *)
(* visible false whatever value is; the order, the entry's other fields    *)
(* and every other entry stay as they were.                                *)
C8_SetVisibleHides ==
    \A name \in Range(objects(1)) : \A value \in BOOLEAN :
        LET h == set_visible_h(Begin(1), name, value)
            old == View(ydoc[1])
            new == View(h.doc)
            k == First(objects(1), name)
        IN  /\ h.oc = "ok"
            /\ Len(new) = Len(old)
            /\ new[k] = <<old[k][1], old[k][2], old[k][3], FALSE>>
            /\ \A i \in 1..Len(old) : i # k => new[i] = old[i]

\* The only item the document ever held is hidden: with fewer than two
\* objects no boolean operation gets as far as hiding, so set_visible did.
C8_Witness ==
    /\ Len(ydoc[1]) = 1
    /\ Len(View(ydoc[1])) = 1
    /\ ~View(ydoc[1])[1][4]


(* C9: two replicas that apply local add_object, remove and set_visible    *)
(* transactions concurrently converge: whenever each has received every    *)
(* update the other emitted, both hold the same sequence, with the same    *)
(* names in the same order and the same visible flags.                     *)
Synced == \A r \in Replicas : chan[r] = <<>>

C9_Converges == Synced => View(ydoc[1]) = View(ydoc[2])

\* Both replicas appended to the empty document before hearing of each
\* other, one went on to append again, an entry was hidden and one removed,
\* and everything has been delivered.
C9_Witness ==
    /\ Synced
    /\ \A r \in Replicas : \E i \in 1..Len(ydoc[1]) :
           ydoc[1][i].id = <<r, 1>> /\ ydoc[1][i].origin = NilId
    /\ \E i \in 1..Len(ydoc[1]) : ydoc[1][i].id[2] = 2
    /\ \E i \in 1..Len(ydoc[1]) : ydoc[1][i].deleted
    /\ \E i \in 1..Len(View(ydoc[1])) : ~View(ydoc[1])[i][4]
    /\ Len(View(ydoc[1])) >= 2

(* C10: name uniqueness is best-effort under concurrent writers: the check *)
(* of add_object reads the local replica only, so it passes and the append *)
(* commits whatever the other replica holds or has in flight; and applying *)
(* a remote append adds its entry even when the name is already there:     *)
(* nothing removes or renames a duplicate on merge.                        *)
C10_DuplicatesSurviveMerge ==
    \A r \in peers :
        /\ \A new_object \in GivenObjects :
              new_object.name \notin Range(objects(r)) =>
                  LET h == add_object_h(Begin(r), r, new_object)
                  IN  /\ h.oc = "ok"
                      /\ ObjectsOf(h.doc) = Append(objects(r), new_object.name)
                      /\ Len(h.out) = 1 /\ h.out[1].kind = "ins"
        /\ (chan[r] # <<>> /\ Head(chan[r]).kind = "ins") =>
              LET u == Head(chan[r])
                  merged == ObjectsOf(ApplyUpdate(ydoc[r], u))
              IN  \A name \in AllNames :
                      Count(merged, name) =
                          Count(objects(r), name) + (IF name = u.it.name THEN 1 ELSE 0)

\* Both replicas added the same name to the empty document, the updates
\* have been exchanged, and each replica lists the name twice.
C10_Witness ==
    /\ Synced
    /\ \E name \in GivenNames : \A r \in Replicas :
          /\ Count(objects(r), name) = 2
          /\ \A q \in Replicas : \E i \in 1..Len(ydoc[r]) :
                /\ ydoc[r][i].id = <<q, 1>>
                /\ ydoc[r][i].origin = NilId
                /\ ydoc[r][i].name = name

(* C11: an append is atomic for a concurrent reader: in every state of     *)
(* every replica, and in every update on its way, an entry carries its     *)
(* name, shape, parameters and visible flag as the one add transaction     *)
(* wrote them (a copy of an entry has the name, shape and parameters of    *)
(* every other copy); add_object and add_occ_shape emit the whole entry as *)
(* one update.                                                             *)
Complete(it) == it.name # NoName /\ it.shape # "" /\ it.visible \in BOOLEAN

Kinds(out) == [i \in 1..Len(out) |-> out[i].kind]

C11_OneWholeAppend(r, h, name, shape) ==
    h.oc = "ok" =>
        /\ Kinds(h.out) = <<"ins">>
        /\ Fields(h.out[1].it) = <<name, shape, <<>>, TRUE>>
        /\ ObjectsOf(h.doc) = Append(objects(r), name)

C11_AppendIsAtomic ==
    /\ \A r \in Replicas : \A i \in 1..Len(ydoc[r]) :
          IsLive(ydoc[r][i]) =>
              /\ Complete(ydoc[r][i])
              /\ \A q \in Replicas : \A j \in 1..Len(ydoc[q]) :
                    (ydoc[q][j].id = ydoc[r][i].id /\ IsLive(ydoc[q][j])) =>
                        /\ ydoc[q][j].name = ydoc[r][i].name
                        /\ ydoc[q][j].shape = ydoc[r][i].shape
                        /\ ydoc[q][j].params = ydoc[r][i].params
    /\ \A r \in Replicas : \A k \in 1..Len(chan[r]) :
          chan[r][k].kind = "ins" => Complete(chan[r][k].it)
    /\ \A r \in Replicas :
          /\ \A new_object \in GivenObjects :
                C11_OneWholeAppend(r, add_object_h(Begin(r), r, new_object),
                                   new_object.name, new_object.shape)
          /\ \A name \in GivenNames :
                C11_OneWholeAppend(r, add_occ_shape_h(Begin(r), r, name, TRUE),
                                   name, "Part::Any")

\* The peer already lists an entry the host appended while later updates of
\* the host are still on their way.
C11_Witness ==
    /\ \E i \in 1..Len(ydoc[2]) : IsLive(ydoc[2][i]) /\ ydoc[2][i].id[1] = 1
    /\ \E k \in 1..Len(chan[2]) : chan[2][k].kind = "ins"
    /\ Len(ydoc[2]) < Len(ydoc[1])

(* C12: every change to a replica's array is made while exactly one        *)
(* transaction of that replica is open, along Idle -> TransactionOpen ->   *)
(* Committed -> Idle: no transaction is opened while another is open;      *)
(* add_object, remove and set_visible commit at most one transaction per   *)
(* call; a remote update is applied only outside every call; a cut, fuse   *)
(* or intersect that appends its result has committed exactly three        *)
(* transactions, two visibility rewrites and then the append.              *)
C12_Scopes ==
    \A r \in Replicas :
        /\ run[r].open \in {0, 1}
        /\ (run[r].txn = "Open") <=> (run[r].open = 1)
        /\ run[r].call \in {"add_object", "remove", "set_visible"} => Len(run[r].log) <= 1
        /\ (run[r].call = "cut" /\ "ins" \in Range(run[r].log))
              => run[r].log = <<"set", "set", "ins">>

C12_Booleans ==
    \A shape \in BooleanShapes : \A name \in {<<"A", 0>>, NoName} : \A a, b \in FewArgs :
        LET h == boolean_h(Begin(1), 1, name, a, b, shape)
        IN  "ins" \in Range(Kinds(h.out)) => Kinds(h.out) = <<"set", "set", "ins">>

C12_Changes ==
    \A r \in Replicas :
        /\ ydoc'[r] # ydoc[r] =>
              \/ run[r].txn = "Open" /\ run[r].open = 1 /\ run'[r].txn = "Open"
              \/ /\ run[r] = NotRunning /\ run'[r] = NotRunning
                 /\ chan[r] # <<>> /\ chan'[r] = Tail(chan[r])
        /\ run'[r].txn # run[r].txn =>
              <<run[r].txn, run'[r].txn>> \in
                  {<<"Idle", "Open">>, <<"Open", "Committed">>, <<"Committed", "Idle">>}

C12_OneTransactionAtATime ==
    /\ [](C12_Scopes /\ C12_Booleans)
    /\ [][C12_Changes]_vars

\* The host is about to return from a cut that committed its three
\* transactions, and the peer has taken none of them yet.
C12_Witness ==
    /\ run[1].call = "cut"
    /\ run[1].log = <<"set", "set", "ins">>
    /\ Kinds(chan[2]) = <<"set", "set", "ins">>

(* C13: path_to_comm classifies a path by its file extension, whatever the *)
(* case: extension jcad (also after more than one dot, as in a.b.jcad)     *)
(* gives format "text" and contentType "jcad"; extension fcstd gives       *)
(* "base64" and "FCStd" when FreeCAD is there; any other extension fails   *)
(* as unsupported; a name without a dot fails as undetectable; no path     *)
(* gives a payload of nulls.                                               *)
HasDot(name) == Dot \in Range(name)

LastDot(name) ==
    CHOOSE i \in 1..Len(name) : name[i] = Dot /\ \A j \in (i + 1)..Len(name) : name[j] # Dot

\* The extension of a file name with a dot: what follows its last dot.
Extension(name) == Lower(SubSeq(name, LastDot(name) + 1, Len(name)))

C13_ClassifiesByExtension ==
    widget.pc # "new" =>
        LET c == widget.comm_data
            p == widget.path
        IN  IF ~p.given THEN c = CommData("", NoPath, "None", "None")
            ELSE IF ~HasDot(p.name) THEN c.error = "ValueError_detect"
            ELSE IF Extension(p.name) = <<"jcad">>
            THEN c = CommData("", p, "text", "jcad")
            ELSE IF Extension(p.name) = <<"fcstd">>
            THEN widget.fc => c = CommData("", p, "base64", "FCStd")
            ELSE c.error = "ValueError_unsupported"

(* C14: opening fails before any state exists: when the path has an        *)
(* unsupported or undetectable extension, or extension fcstd without       *)
(* FreeCAD, the constructor raises before the comm is opened, before the   *)
(* "objects" array is obtained and before any transaction: no document     *)
(* and no update is ever there for that path.                              *)
C14_MustFail(p, fc) ==
    /\ p.given
    /\ \/ ~HasDot(p.name)
       \/ Extension(p.name) \notin {<<"jcad">>, <<"fcstd">>}
       \/ Extension(p.name) = <<"fcstd">> /\ ~fc

C14_NothingExists ==
    /\ ~widget.comm
    /\ ~widget.array
    /\ peers = {}
    /\ \A r \in Replicas : ydoc[r] = <<>> /\ chan[r] = <<>> /\ run[r] = NotRunning

C14_FailedOpenTouchesNothing ==
    C14_MustFail(widget.path, widget.fc) =>
        /\ C14_NothingExists
        /\ widget.pc \in {"new", "raised"}


(* C15: constructing an object through create_object(raw, parent), as      *)
(* get_object and the builders do, never changes the parent document: its  *)
(* sequence and entries are the same before and after; the object is       *)
(* registered as the only entry of a new document that is not the parent,  *)
(* and it enters the parent only through an explicit add_object.           *)
RawData ==
    {Data(name, shape, <<>>) :
        name \in AllNames, shape \in {"Part::Box", "Part::Extrusion", "Part::Any"}}
    \cup {Data(Fmt("Cut", 1), "Part::Cut", <<a, b>>) : a, b \in GivenNames}

C15_ConstructionLeavesParent ==
    /\ \A data \in RawData :
          LET c == create_object_in(data, ydoc[1])
          IN  /\ c.parent = ydoc[1]
              /\ c.object = create_object(data)
              /\ c.object # NoObject =>
                    /\ View(c.caddoc) = <<<<data.name, data.shape, data.params, TRUE>>>>
                    /\ c.caddoc # c.parent
                    /\ \A i \in 1..Len(c.parent) : c.parent[i].id # c.caddoc[1].id
                    /\ data.name \notin Range(objects(1)) =>
                          /\ data.name \notin Range(ObjectsOf(c.parent))
                          /\ ObjectsOf(add_object_h(Local(c.parent, <<>>, "ok"), 1, c.object).doc)
                                = Append(objects(1), data.name)
    /\ \A i \in 1..Len(Entries(ydoc[1])) :
          LET e == Entries(ydoc[1])[i]
          IN  create_object_in(Data(e.name, e.shape, e.params), ydoc[1]).parent = ydoc[1]

\* The document holds objects the factory built, "Box 1" and a boolean
\* object made of two entries: each entered through add_object.
C15_Witness ==
    LET v == View(ydoc[1])
    IN  /\ \E i \in 1..Len(v) : v[i][1] = Fmt("Box", 1) /\ v[i][2] = "Part::Box"
        /\ \E i \in 1..Len(v) : v[i][2] \in BooleanShapes /\ Len(v[i][3]) = 2
        /\ create_object_in(Data(Fmt("Box", 1), "Part::Box", <<>>), ydoc[1]).caddoc # <<>>


(* C16: in cut, fuse and intersect the result is appended before an        *)
(* operand is hidden: in every committed state of the call in which the    *)
(* call has hidden an operand, the call has already appended its result.   *)
C16_ResultBeforeHiding ==
    /\ \A r \in Replicas :
          (run[r].call = "cut" /\ "set" \in Range(run[r].log))
              => "ins" \in Range(run[r].log)
    /\ \A shape \in BooleanShapes : \A a, b \in FewArgs :
          LET kinds == Kinds(boolean_h(Begin(1), 1, NoName, a, b, shape).out)
          IN  \A k \in 1..Len(kinds) :
                  kinds[k] = "set" => \E j \in 1..(k - 1) : kinds[j] = "ins"

(* C17: a successful add_object(obj) appends exactly one entry at the end  *)
(* and leaves the earlier entries as they were; the entry's visible is     *)
(* true unless obj carries a visible field of its own, whose value the     *)
(* entry then keeps (visible=false is stored as false).                    *)
Carrying(obj, visible) ==
    [name |-> obj.name, shape |-> obj.shape, params |-> obj.params, visible |-> visible]

C17_Objects == GivenObjects \cup {Carrying(obj, v) : obj \in GivenObjects, v \in BOOLEAN}

C17_WantedVisible(obj) == IF "visible" \in DOMAIN obj THEN obj.visible ELSE TRUE

C17_AppendKeepsVisible ==
    \A obj \in C17_Objects :
        obj.name \notin Range(objects(1)) =>
            LET h == add_object_h(Begin(1), 1, obj)
            IN  /\ h.oc = "ok"
                /\ View(h.doc) = Append(View(ydoc[1]),
                      <<obj.name, obj.shape, obj.params, C17_WantedVisible(obj)>>)

(* C18: in every reachable document state and for every name,              *)
(* get_object(name) is null exactly when name is not in objects: every     *)
(* listed name, whichever operation added it, resolves to an object with   *)
(* that name.                                                              *)
C18_ListedNamesResolve ==
    \A name \in AllNames \cup Range(objects(1)) :
        /\ (get_object(ydoc[1], name) = NoObject) <=> (name \notin Range(objects(1)))
        /\ name \in Range(objects(1)) => get_object(ydoc[1], name).name = name

(* C19: visibility is monotone on a single replica: once an entry's        *)
(* visible is false, no public operation makes it true while the entry is  *)
(* in the sequence; a name that resolved to a hidden entry resolves to a   *)
(* visible one only when the hidden entry has been removed and the name is *)
(* another entry's.                                                        *)
C19_EntryStaysHidden ==
    \A i \in 1..Len(ydoc[1]) :
        (IsLive(ydoc[1][i]) /\ ~ydoc[1][i].visible) =>
            \A j \in 1..Len(ydoc'[1]) :
                (ydoc'[1][j].id = ydoc[1][i].id /\ IsLive(ydoc'[1][j])) => ~ydoc'[1][j].visible

C19_NameStaysHidden ==
    \A name \in AllNames :
        LET old == get_yobject_by_name(ydoc[1], name)
            new == get_yobject_by_name(ydoc'[1], name)
        IN  (old # 0 /\ new # 0 /\ ~ydoc[1][old].visible /\ ydoc'[1][new].visible) =>
                /\ ydoc'[1][new].id # ydoc[1][old].id
                /\ ydoc'[1][old].deleted

C19_HiddenStaysHidden == [][C19_EntryStaysHidden /\ C19_NameStaysHidden]_vars

\* A hidden entry in a document that has since been filled and has lost
\* another entry.
C19_Witness ==
    /\ Len(ydoc[1]) = MaxItems
    /\ \E i, j \in 1..Len(ydoc[1]) :
          /\ i < j
          /\ IsLive(ydoc[1][i]) /\ ~ydoc[1][i].visible
          /\ ydoc[1][j].deleted

(* C20: auto-naming yields the lowest free number and never blocks an add: *)
(* a builder called without a name (add_box, add_cone, add_cylinder,       *)
(* add_sphere, add_torus, and cut, fuse, intersect on two objects or more) *)
(* grows objects by exactly one entry named "P n", n the least integer     *)
(* >= 1 with "P n" not in objects (P is "Cut" for cut, fuse and            *)
(* intersect); k add_box() calls on the empty document give "Box 1", ...,  *)
(* "Box k" in that order.                                                  *)
LeastFree(objs, p) ==
    CHOOSE n \in 1..(Len(objs) + 1) :
        Fmt(p, n) \notin Range(objs) /\ \A m \in 1..(n - 1) : Fmt(p, m) \in Range(objs)

Builders ==
    {<<"Part::Box", "Box">>, <<"Part::Cone", "Cone">>, <<"Part::Cylinder", "Cylinder">>,
     <<"Part::Sphere", "Sphere">>, <<"Part::Torus", "Torus">>}

RECURSIVE AddBoxes(_)
AddBoxes(k) ==
    IF k = 0 THEN Local(<<>>, <<>>, "ok")
    ELSE add_primitive_h(AddBoxes(k - 1), 1, NoName, "Part::Box", "Box")

C20_LowestFreeNumber ==
    /\ \A b \in Builders :
          LET h == add_primitive_h(Begin(1), 1, NoName, b[1], b[2])
          IN  /\ h.oc = "ok"
              /\ ObjectsOf(h.doc) = Append(objects(1), Fmt(b[2], LeastFree(objects(1), b[2])))
    /\ Len(objects(1)) >= 2 =>
          \A shape \in BooleanShapes :
              LET h == boolean_h(Begin(1), 1, NoName, Omitted, Omitted, shape)
              IN  /\ h.oc = "ok"
                  /\ ObjectsOf(h.doc) =
                        Append(objects(1), Fmt("Cut", LeastFree(objects(1), "Cut")))
    /\ \A k \in 1..MaxItems :
          ObjectsOf(AddBoxes(k).doc) = [n \in 1..k |-> Fmt("Box", n)]

\* "Box 1" was removed while "Box 2" stayed: the next add_box() takes
\* "Box 1" again.
C20_Witness ==
    /\ Fmt("Box", 2) \in Range(objects(1))
    /\ Fmt("Box", 1) \notin Range(objects(1))
    /\ new_name(ydoc[1], "Box") = Fmt("Box", 1)


====
